---- MODULE Spec2Model ----
(***************************************************************************)
(* Model of the BJX QN incremental crawler (zy-2112/bjx_crawl).            *)
(*                                                                         *)
(* Time is counted in whole hours since an epoch; a calendar day has       *)
(* HoursPerDay hours.  A date string is a record [fmt, day, hour]:         *)
(*   fmt = "date"      'YYYY-MM-DD'                                         *)
(*   fmt = "datetime"  'YYYY-MM-DD HH:MM:SS'                                *)
(*   fmt = "junk"      a non-empty string in neither format                 *)
(*   fmt = "empty"     the empty string                                     *)
(* A URL is a pair <<origin, path>>.  Python's None is NoneTime for a time *)
(* and NoneUrl for a URL.                                                  *)
(***************************************************************************)
EXTENDS Integers, Sequences, FiniteSets, TLC

\* ------------------------------------------------------------------ bounds
MaxLen == 2
MaxPagesArg == 2
SiteDepth == 2
MaxRuns == 2
MaxRetries == 3

\* ------------------------------------------------------- program constants
HoursPerDay == 24
NoneTime == -1
BadTime == -3
DatetimeMin == -2
CutoffBufferHours == 1
MinBodyLen == 100
FirstRunMaxPages == 50
IncrementalMaxPages == 10
FullCrawlPageCeiling == 20
DefaultMaxPagesCI == 10
ShortBodyWait == 3
ConnectTimeoutExtra == 5
ReadTimeoutExtra == 3
RequestErrorExtra == 2
NumUserAgents == 5

Origin == "https://qn.bjx.com.cn"
BASE_URL == <<Origin, "/zq">>
NoneUrl == <<"", "">>

\* ------------------------------------------------------------ date strings
EmptyDate == [fmt |-> "empty", day |-> 0, hour |-> 0]
JunkDate == [fmt |-> "junk", day |-> 0, hour |-> 0]
PlainDate(d) == [fmt |-> "date", day |-> d, hour |-> 0]
DateTime(d, h) == [fmt |-> "datetime", day |-> d, hour |-> h]

\* datetime.strptime(date_str, '%Y-%m-%d'), else '%Y-%m-%d %H:%M:%S', else None
parse_article_date(date_str) ==
    IF date_str.fmt = "date" THEN date_str.day * HoursPerDay
    ELSE IF date_str.fmt = "datetime" THEN date_str.day * HoursPerDay + date_str.hour
    ELSE NoneTime

is_article_newer_than_cutoff_inclusive(article_date_str, cutoff) ==
    LET article_date == parse_article_date(article_date_str)
    IN  IF article_date = NoneTime THEN TRUE ELSE article_date >= cutoff

is_article_newer_than_cutoff(article_date_str, cutoff) ==
    LET article_date == parse_article_date(article_date_str)
    IN  IF article_date = NoneTime THEN TRUE ELSE article_date > cutoff

\* ------------------------------------------------------------------ parser
\* urljoin(base_url, href) for the root-relative hrefs of the listing page
urljoin(base_url, href) == <<base_url[1], href>>

\* str.strip() on the title attribute
Strip(s) == IF s = " " THEN "" ELSE s

\* the body of the per-item loop: the record an <li> yields, if any
ItemTitle(li) == IF Strip(li.title_attr) # "" THEN Strip(li.title_attr) ELSE li.text

ItemDate(li) == IF li.has_span THEN li.span_text ELSE EmptyDate

\* a per-item body without the `if not title or not url: continue` test
ItemAcceptedUntitled(li, cutoff) ==
    /\ li.has_link
    /\ li.href # ""
    /\ \/ cutoff = NoneTime
       \/ ItemDate(li).fmt = "empty"
       \/ is_article_newer_than_cutoff(ItemDate(li), cutoff)

ItemAccepted(li, cutoff) ==
    /\ li.has_link
    /\ li.href # ""
    /\ ItemTitle(li) # ""
    /\ \/ cutoff = NoneTime
       \/ ItemDate(li).fmt = "empty"
       \/ is_article_newer_than_cutoff(ItemDate(li), cutoff)

ItemRecord(li, base_url) ==
    [title |-> ItemTitle(li), date |-> ItemDate(li), url |-> urljoin(base_url, li.href)]

RECURSIVE ParseItems(_, _, _)
ParseItems(lis, base_url, cutoff) ==
    IF lis = <<>> THEN <<>>
    ELSE (IF ItemAccepted(Head(lis), cutoff)
          THEN <<ItemRecord(Head(lis), base_url)>> ELSE <<>>)
         \o ParseItems(Tail(lis), base_url, cutoff)

parse_articles(page, base_url, cutoff) ==
    IF ~page.container THEN <<>> ELSE ParseItems(page.items, base_url, cutoff)

\* a reading of the pager that follows the next anchor even when it is disabled
get_next_page_url_any_anchor(page, base_url) ==
    IF ~page.paging THEN NoneUrl
    ELSE IF ~page.next_link THEN NoneUrl
    ELSE IF page.next_href # "" /\ page.next_href # "javascript:;"
         THEN urljoin(base_url, page.next_href)
    ELSE NoneUrl

get_next_page_url(page, base_url) ==
    IF ~page.paging THEN NoneUrl
    ELSE IF ~page.next_link THEN NoneUrl
    ELSE IF page.next_disabled THEN NoneUrl
    ELSE IF page.next_href # "" /\ page.next_href # "javascript:;"
         THEN urljoin(base_url, page.next_href)
    ELSE NoneUrl

\* ------------------------------------------------------------ merge / dedup
existing_urls(existing) == {existing[i].url : i \in DOMAIN existing}

unique_new_articles_all(existing, new) == new

unique_new_articles(existing, new) ==
    SelectSeq(new, LAMBDA article : article.url \notin existing_urls(existing))

sort_key(article) ==
    IF article.date.fmt = "date" THEN article.date.day * HoursPerDay ELSE DatetimeMin

\* list.sort(key=sort_key, reverse=True): stable, descending
RECURSIVE InsertDesc(_, _)
InsertDesc(sorted, x) ==
    IF sorted = <<>> THEN <<x>>
    ELSE IF sort_key(Head(sorted)) >= sort_key(x)
         THEN <<Head(sorted)>> \o InsertDesc(Tail(sorted), x)
    ELSE <<x>> \o sorted

RECURSIVE SortDesc(_)
SortDesc(s) ==
    IF s = <<>> THEN <<>>
    ELSE InsertDesc(SortDesc(SubSeq(s, 1, Len(s) - 1)), s[Len(s)])

\* a merge in which a new record replaces the existing record of the same URL
merge_articles_replacing(existing, new) ==
    SortDesc(SelectSeq(existing, LAMBDA article : article.url \notin existing_urls(new)) \o new)

merge_articles(existing, new) ==
    SortDesc(existing \o unique_new_articles(existing, new))

\* ------------------------------------------------------------------ helpers
SeqsUpTo(S, n) == UNION {[1..k -> S] : k \in 0..n}

NoDupUrls(s) == \A i, j \in DOMAIN s : s[i].url = s[j].url => i = j

CountUrl(s, u) == Cardinality({i \in DOMAIN s : s[i].url = u})

\* ------------------------------------------------------------------- state
VARIABLES
    pc,                 \* position of the program
    \* the environment that outlives a run
    now,                \* the clock, in hours
    state_file,         \* crawl_state.json
    files,              \* the JSON record files of the working directory
    output_json,        \* the OUTPUT_JSON setting of the deployment
    site,               \* the listing site: what its pages can hold, its depth
    runs,               \* runs started so far
    \* one run of an entry point
    entry, force_full_crawl, env_max_pages, state, is_first_run,
    existing_articles, new_articles, final_articles,
    exit_code, result, state_read, saved, wrote_records, save_to_json_called,
    \* crawl_incremental / crawl_all_pages
    engine, cutoff_time, max_pages, current_url, page_count, all_articles,
    fetch_log,
    fetch_failed,       \* the loop was left through `except Exception: break`
    \* parse_articles on its own
    html, page_articles,
    \* fetch_html
    fetcher, retries, attempt, responses, fetch_status, fetch_body, waits,
    session_ua,         \* the User-Agent header of the session of this call
    ua_selections,      \* calls of get_headers() made by this call
    sent_agents,        \* the User-Agent sent with each attempt
    http_requests,      \* calls of session.get made so far
    \* the HTTP handler of api/crawl.py
    proc,               \* how the crawler subprocess of the request went
    bodies,             \* the response bodies written to the client
    notified,           \* the kind of the notification e-mail handed to the mailer
    job,                \* the locals of each of two runs that overlap
    truncated           \* crawl_state.json was opened for writing, nothing flushed yet

envVars == <<now, state_file, files, output_json, site, runs>>
runVars == <<entry, force_full_crawl, env_max_pages, state, is_first_run,
             exit_code, result, state_read, saved, wrote_records,
             save_to_json_called>>
mergeVars == <<existing_articles, new_articles, final_articles>>
crawlVars == <<engine, cutoff_time, max_pages, current_url, page_count,
               all_articles, fetch_log, fetch_failed>>
parseVars == <<html, page_articles>>
fetchVars == <<fetcher, retries, attempt, responses, fetch_status, fetch_body, waits,
               session_ua, ua_selections, sent_agents, http_requests>>
handlerVars == <<proc, bodies, notified>>
overlapVars == <<job, truncated>>
vars == <<pc, envVars, runVars, mergeVars, crawlVars, parseVars, fetchVars, handlerVars, overlapVars>>

\* ---------------------------------------------------------------- the site
Li(href, date) ==
    [has_link |-> TRUE, title_attr |-> "T", text |-> "x", href |-> href,
     has_span |-> TRUE, span_text |-> date]

ItemA == Li("/a", PlainDate(0))
ItemB == Li("/b", PlainDate(1))

\* the item lists a listing page can hold: for a crawl studied on its own,
\* and for the site the entry points run against
RichPageItems == {<<>>, <<ItemA>>, <<ItemB>>, <<ItemA, ItemB>>}
PlainPageItems == {<<>>, <<ItemA>>, <<ItemB>>}

Page(items, paging, next_link, disabled, href) ==
    [container |-> TRUE, items |-> items, paging |-> paging,
     next_link |-> next_link, next_disabled |-> disabled, next_href |-> href]

\* a body without the list container (an error page, a truncated body)
BarePage ==
    [container |-> FALSE, items |-> <<>>, paging |-> FALSE,
     next_link |-> FALSE, next_disabled |-> FALSE, next_href |-> ""]

LastPages == {Page(its, FALSE, FALSE, FALSE, "") : its \in site.items}
             \cup {Page(its, TRUE, TRUE, TRUE, "/zq/2") : its \in site.items}
             \cup {Page(its, TRUE, TRUE, FALSE, "javascript:;") : its \in site.items}
             \cup {BarePage}

LinkedPages == {Page(its, TRUE, TRUE, FALSE, h) :
                    its \in site.items, h \in site.next_hrefs}

\* what fetch_html(url) can give the engine for its n-th page: an exception, or
\* the markup of a page; the site is site.depth pages deep
FetchResults(n) ==
    {[raised |-> TRUE, page |-> BarePage]}
    \cup {[raised |-> FALSE, page |-> p] :
            p \in (IF n < site.depth THEN LastPages \cup LinkedPages ELSE LastPages)}

\* ------------------------------------------------------------ crawl engines
LoopCondTwiceCap(url, count, limit) == url # NoneUrl /\ count < 2 * limit
LoopCondOffByOne(url, count, limit) == url # NoneUrl /\ count <= limit

\* while current_url and page_count < max_pages [and not found_old_articles]
LoopCond(url, count, limit) == url # NoneUrl /\ count < limit

CrawlPc(url, count, limit) == IF LoopCond(url, count, limit) THEN "crawl" ELSE "crawled"

StopOnEmptyNever(page_arts, cutoff) == FALSE

\* if not page_articles: if cutoff_time: break
StopOnEmpty(page_arts, cutoff) == page_arts = <<>> /\ cutoff # NoneTime

OnPageErrorWipe(acc) == <<>>

\* except Exception: break -- what was accumulated is kept
OnPageError(acc) == acc

ExtendFront(acc, page_arts) == page_arts \o acc

\* all_articles.extend(page_articles)
Extend(acc, page_arts) == acc \o page_arts

\* one fetch of the crawl: the URL, whether fetch_html raised, the markup it
\* returned, the records parsed from it, the next-page URL parsed from it and
\* whether time.sleep(1) ran after it
LogEntry(url, raised, page, accepted, next, slept) ==
    [url |-> url, raised |-> raised, page |-> page, listed |-> Len(page.items),
     accepted |-> accepted, next |-> next, slept |-> slept]

\* fetch_log is the page-by-page history of a crawl that is called on its own;
\* inside a run of an entry point only the engine's own variables are kept
Logged(e) == IF entry = "none" THEN Append(fetch_log, e) ELSE fetch_log

\* the body of one iteration of crawl_incremental once fetch_html(current_url)
\* has raised or returned the markup, and the loop test after it; n is the
\* number of the page
IncrementalIteration(res, n) ==
    IF res.raised
    THEN /\ all_articles' = OnPageError(all_articles)
         /\ current_url' = current_url
         /\ fetch_log' = Logged(
                LogEntry(current_url, TRUE, BarePage, <<>>, NoneUrl, FALSE))
         /\ fetch_failed' = TRUE
         /\ pc' = "crawled"
    ELSE LET page_arts == parse_articles(res.page, current_url, cutoff_time)
             next_url == get_next_page_url(res.page, current_url)
         IN  IF StopOnEmpty(page_arts, cutoff_time)
             THEN /\ all_articles' = all_articles
                  /\ fetch_failed' = FALSE
                  /\ current_url' = current_url
                  /\ fetch_log' = Logged(
                         LogEntry(current_url, FALSE, res.page, page_arts, next_url, FALSE))
                  /\ pc' = "crawled"
             ELSE /\ all_articles' = Extend(all_articles, page_arts)
                  /\ fetch_failed' = FALSE
                  /\ current_url' = IF next_url # NoneUrl THEN next_url ELSE current_url
                  /\ fetch_log' = Logged(
                         LogEntry(current_url, FALSE, res.page, page_arts, next_url,
                                  next_url # NoneUrl))
                  /\ pc' = IF next_url # NoneUrl
                           THEN CrawlPc(next_url, n, max_pages)
                           ELSE "crawled"

\* one iteration of the loop of crawl_incremental, and the loop test after it
crawl_incremental_page ==
    /\ pc = "crawl"
    /\ engine = "incremental"
    /\ LoopCond(current_url, page_count, max_pages)
    /\ page_count' = page_count + 1
    /\ \E res \in FetchResults(page_count + 1) :
         IncrementalIteration(res, page_count + 1)
    /\ UNCHANGED <<engine, cutoff_time, max_pages>>
    /\ UNCHANGED <<envVars, runVars, mergeVars, parseVars, fetchVars, handlerVars, overlapVars>>

\* the parser of the basic crawler takes no cutoff
parse_articles_basic(page, base_url) == parse_articles(page, base_url, NoneTime)

\* one iteration of the loop of crawl_all_pages, and the loop test after it
crawl_all_pages_page ==
    /\ pc = "crawl"
    /\ engine = "basic"
    /\ LoopCond(current_url, page_count, max_pages)
    /\ page_count' = page_count + 1
    /\ \E res \in FetchResults(page_count + 1) :
         IF res.raised
         THEN /\ all_articles' = OnPageError(all_articles)
              /\ current_url' = current_url
              /\ fetch_log' = Logged(
                     LogEntry(current_url, TRUE, BarePage, <<>>, NoneUrl, FALSE))
              /\ fetch_failed' = TRUE
              /\ pc' = "crawled"
         ELSE LET articles == parse_articles_basic(res.page, current_url)
                  next_url == get_next_page_url(res.page, current_url)
              IN  /\ all_articles' = Extend(all_articles, articles)
                  /\ fetch_failed' = FALSE
                  /\ current_url' = IF next_url # NoneUrl THEN next_url ELSE current_url
                  /\ fetch_log' = Logged(
                         LogEntry(current_url, FALSE, res.page, articles, next_url,
                                  next_url # NoneUrl))
                  /\ pc' = IF next_url # NoneUrl
                           THEN CrawlPc(next_url, page_count + 1, max_pages)
                           ELSE "crawled"
    /\ UNCHANGED <<engine, cutoff_time, max_pages>>
    /\ UNCHANGED <<envVars, runVars, mergeVars, parseVars, fetchVars, handlerVars, overlapVars>>

\* ------------------------------------------------------- idle values of Init
DefaultState == [first_run |-> TRUE, last_crawl_time |-> NoneTime,
                 total_articles_crawled |-> 0]
\* crawl_state.json: absent, or present in one of these forms
\*   "state"       a JSON object
\*   "unreadable"  open() raises
\*   "bad_json"    json.load raises
\*   "not_object"  JSON, but no object: state.get raises
\* content is the object the file holds; for the other forms it is what the
\* bytes held before they were damaged, which no reader may rely on
StateForms == {"state", "unreadable", "bad_json", "not_object"}
StateFileOf(st) == [exists |-> TRUE, form |-> "state", content |-> st]
NoStateFile == [exists |-> FALSE, form |-> "state", content |-> DefaultState]
NoSave == [called |-> FALSE, ok |-> FALSE, raised |-> FALSE, content |-> DefaultState]
NoFile == [exists |-> FALSE, data |-> <<>>]
FileNames == {"latest_articles.json", "articles.json", "out.json"}
NoResult == [kind |-> "none", articles |-> <<>>, new_articles_count |-> 0,
             total_articles_count |-> 0, is_first_run |-> FALSE,
             warning |-> FALSE, network_error |-> FALSE, error |-> ""]

EnvIdle ==
    /\ now = 0
    /\ state_file = NoStateFile
    /\ files = [f \in FileNames |-> NoFile]
    /\ output_json = "articles.json"
    /\ site = [items |-> RichPageItems, next_hrefs |-> {"/zq", "/zq/2"},
               depth |-> MaxPagesArg + 1]
    /\ runs = 0

RunIdle ==
    /\ entry = "none"
    /\ force_full_crawl = FALSE
    /\ env_max_pages = 0
    /\ state = DefaultState
    /\ is_first_run = FALSE
    /\ exit_code = -1
    /\ result = NoResult
    /\ state_read = FALSE
    /\ saved = NoSave
    /\ wrote_records = FALSE
    /\ save_to_json_called = FALSE

MergeIdle ==
    /\ existing_articles = <<>>
    /\ new_articles = <<>>
    /\ final_articles = <<>>

CrawlIdle ==
    /\ engine = "incremental"
    /\ cutoff_time = NoneTime
    /\ max_pages = 0
    /\ current_url = NoneUrl
    /\ page_count = 0
    /\ all_articles = <<>>
    /\ fetch_log = <<>>
    /\ fetch_failed = FALSE

ParseIdle ==
    /\ html = BarePage
    /\ page_articles = <<>>

\* the User-Agent strings: the fixed HEADERS of crawl_bjx_qn.py, and the pool
\* USER_AGENTS that get_headers() draws from with random.choice
FixedAgent == 0
USER_AGENTS == 1..NumUserAgents

NoResponse == [kind |-> "none", len |-> 0, blocked |-> FALSE]

FetchIdle ==
    /\ fetcher = "incremental"
    /\ retries = 0
    /\ attempt = 0
    /\ responses = <<>>
    /\ fetch_status = "idle"
    /\ fetch_body = NoResponse
    /\ waits = <<>>
    /\ session_ua = FixedAgent
    /\ ua_selections = 0
    /\ sent_agents = <<>>
    /\ http_requests = 0

\* what json.loads(result.stdout) gives when the output is a JSON object: the
\* keys the handler looks at; n_articles is the length of 'articles' and the
\* value of 'total_articles_count'
NoObject == [has_error |-> FALSE, has_articles |-> FALSE, n_articles |-> 0,
             has_total |-> FALSE, has_warning |-> FALSE, network_error |-> FALSE]

\* subprocess.run has not been called
NoProc == [kind |-> "none", returncode |-> 0, form |-> "not_json", obj |-> NoObject]

HandlerIdle ==
    /\ proc = NoProc
    /\ bodies = <<>>
    /\ notified = "none"

\* the two runs of the file-mode entry point that may overlap
Jobs == {1, 2}

\* main() of a run has not started
IdleJob == [pc |-> "idle", state |-> DefaultState, is_first_run |-> FALSE,
            cutoff_time |-> NoneTime, new_articles |-> <<>>,
            final_articles |-> <<>>, path |-> "none", writing |-> FALSE,
            early |-> FALSE, exit_code |-> 0]

OverlapIdle ==
    /\ job = [p \in Jobs |-> IdleJob]
    /\ truncated = FALSE

\* ------------------------------------------- the crawl engines on their own
CutoffValues == {NoneTime, 0, HoursPerDay - 1, HoursPerDay}

InitCrawl ==
    /\ engine \in {"incremental", "basic"}
    /\ cutoff_time \in (IF engine = "basic" THEN {NoneTime} ELSE CutoffValues)
    /\ max_pages \in 0..MaxPagesArg
    /\ current_url = BASE_URL
    /\ page_count = 0
    /\ all_articles = <<>>
    /\ fetch_log = <<>>
    /\ fetch_failed = FALSE
    /\ pc = CrawlPc(current_url, page_count, max_pages)
    /\ EnvIdle /\ RunIdle /\ MergeIdle /\ ParseIdle /\ FetchIdle /\ HandlerIdle /\ OverlapIdle

NextCrawl == crawl_incremental_page \/ crawl_all_pages_page

SpecCrawl == InitCrawl /\ [][NextCrawl]_vars

\* all_articles.extend(page_articles), page after page
RECURSIVE ConcatAccepted(_)
ConcatAccepted(log) ==
    IF log = <<>> THEN <<>>
    ELSE ConcatAccepted(SubSeq(log, 1, Len(log) - 1)) \o log[Len(log)].accepted

\* C3: when the fetch of page k raises, no further page is fetched, the crawl
\* returns normally and its result is exactly the accepted records of pages
\* 1..k-1, in order.
C3_PartialFailurePreserved ==
    \A k \in DOMAIN fetch_log :
        (engine = "incremental" /\ fetch_log[k].raised) =>
            /\ k = Len(fetch_log)
            /\ pc = "crawled"
            /\ all_articles = ConcatAccepted(SubSeq(fetch_log, 1, k - 1))

C3_Witness ==
    /\ engine = "incremental"
    /\ pc = "crawled"
    /\ Len(fetch_log) >= 2
    /\ fetch_log[Len(fetch_log)].raised
    /\ all_articles # <<>>

\* C4: a crawl with max_pages = N fetches at most N pages, whatever the
\* pagination (deep or cyclic), in crawl_incremental and in crawl_all_pages.
C4_TerminationBound ==
    /\ Len(fetch_log) <= max_pages
    /\ page_count = Len(fetch_log)

C4_Witness ==
    /\ pc = "crawled"
    /\ max_pages >= 2
    /\ Len(fetch_log) = max_pages
    /\ fetch_log[max_pages].url = BASE_URL
    /\ fetch_log[max_pages].next = BASE_URL

\* C5: with a cutoff, a page with zero accepted records is the last page
\* fetched, next-page link or not; without a cutoff, an empty page with a
\* next-page link inside the page cap is followed by the fetch of that link.
C5_CutoffStop ==
    \A k \in DOMAIN fetch_log :
        (engine = "incremental" /\ ~fetch_log[k].raised /\ fetch_log[k].accepted = <<>>) =>
            IF cutoff_time # NoneTime
            THEN k = Len(fetch_log) /\ pc = "crawled"
            ELSE (fetch_log[k].next # NoneUrl /\ k < max_pages) =>
                    \/ k < Len(fetch_log) /\ fetch_log[k + 1].url = fetch_log[k].next
                    \/ /\ k = Len(fetch_log)
                       /\ pc = "crawl"
                       /\ current_url = fetch_log[k].next
                       /\ LoopCond(current_url, page_count, max_pages)

C5_Witness ==
    /\ engine = "incremental"
    /\ cutoff_time # NoneTime
    /\ pc = "crawled"
    /\ Len(fetch_log) = 1
    /\ max_pages > 1
    /\ ~fetch_log[1].raised
    /\ fetch_log[1].listed > 0
    /\ fetch_log[1].accepted = <<>>
    /\ fetch_log[1].next # NoneUrl

\* the records of the items of a page that the parser accepts, in page order
AcceptedOf(page, base_url, cutoff) ==
    LET sel == SelectSeq(page.items, LAMBDA li : ItemAccepted(li, cutoff))
    IN  [i \in 1..Len(sel) |-> ItemRecord(sel[i], base_url)]

RECURSIVE ConcatPages(_, _)
ConcatPages(log, cutoff) ==
    IF log = <<>> THEN <<>>
    ELSE ConcatPages(SubSeq(log, 1, Len(log) - 1), cutoff)
         \o AcceptedOf(log[Len(log)].page, log[Len(log)].url, cutoff)

\* C23: the result of crawl_incremental is the concatenation, in visit order,
\* of the accepted records of each fetched page, each page's records in
\* on-page order, none omitted and none reordered.
C23_OutputOrder ==
    engine = "incremental" =>
        all_articles = ConcatPages(fetch_log, cutoff_time)

\* two pages visited, two records taken from the first and one from the second
C23_Witness ==
    /\ engine = "incremental"
    /\ pc = "crawled"
    /\ Len(fetch_log) = 2
    /\ Len(fetch_log[1].accepted) = 2
    /\ fetch_log[1].accepted[1].url # fetch_log[1].accepted[2].url
    /\ Len(fetch_log[2].accepted) = 1
    /\ Len(all_articles) = 3

\* the next-page link of a page, as the markup gives it: an enabled next anchor
\* in the pager whose href is a page address
HasNextLink(page) ==
    /\ page.paging /\ page.next_link /\ ~page.next_disabled
    /\ page.next_href \notin {"", "javascript:;"}

\* C24: the first fetched URL is the start URL and the (i+1)-th fetched URL is
\* the next-page link parsed from the i-th page; a page is fetched only after
\* the page before it was fetched and parsed. Both engines.
C24_PaginationOrder ==
    /\ page_count = Len(fetch_log)
    /\ \A k \in DOMAIN fetch_log :
           /\ k = 1 => fetch_log[k].url = BASE_URL
           /\ k > 1 =>
                 /\ ~fetch_log[k - 1].raised
                 /\ HasNextLink(fetch_log[k - 1].page)
                 /\ fetch_log[k].url = <<Origin, fetch_log[k - 1].page.next_href>>
                 /\ fetch_log[k - 1].accepted =
                        AcceptedOf(fetch_log[k - 1].page, fetch_log[k - 1].url, cutoff_time)

\* a second page fetched at the address the first page linked to, and parsed
C24_Witness ==
    /\ pc = "crawled"
    /\ Len(fetch_log) = 2
    /\ fetch_log[1].url = BASE_URL
    /\ fetch_log[2].url = <<Origin, "/zq/2">>
    /\ ~fetch_log[2].raised
    /\ fetch_log[2].accepted # <<>>

\* C25: one delay between every two consecutive page fetches, a delay only if
\* another page fetch follows, and none after the last fetched page, the page
\* cap included. Both engines.
C25_PolitenessDelay ==
    \A k \in DOMAIN fetch_log :
        fetch_log[k].slept <=>
            \/ k < Len(fetch_log)
            \/ k = Len(fetch_log) /\ pc = "crawl"

\* ------------------------------------------------- parse_articles on its own
ParseDates == {PlainDate(0), PlainDate(1), DateTime(0, 23), DateTime(1, 0), JunkDate}

ParseLis ==
    {Li("/a", d) : d \in ParseDates}
    \cup {[Li("/a", EmptyDate) EXCEPT !.has_span = FALSE],
          [Li("/a", PlainDate(0)) EXCEPT !.has_link = FALSE],
          [Li("", PlainDate(0)) EXCEPT !.title_attr = " "],
          [Li("/a", PlainDate(1)) EXCEPT !.title_attr = " ", !.text = ""]}

\* pages that differ in their pager: no next anchor, a disabled one, an
\* enabled one with no href, with a script href, with a page address
PagerPages ==
    {Page(<<ItemA>>, TRUE, l, d, h) :
        l \in BOOLEAN, d \in BOOLEAN, h \in {"", "javascript:;", "/zq/2"}}

InitParse ==
    /\ pc = "parse"
    /\ cutoff_time \in CutoffValues
    /\ html \in {Page(its, FALSE, FALSE, FALSE, "") : its \in SeqsUpTo(ParseLis, MaxLen)}
                \cup PagerPages \cup {BarePage}
    /\ page_articles = <<>>
    /\ engine = "incremental"
    /\ max_pages = 0
    /\ current_url = NoneUrl
    /\ page_count = 0
    /\ all_articles = <<>>
    /\ fetch_log = <<>>
    /\ fetch_failed = FALSE
    /\ EnvIdle /\ RunIdle /\ MergeIdle /\ FetchIdle /\ HandlerIdle /\ OverlapIdle

parse_articles_call ==
    /\ pc = "parse"
    /\ page_articles' = parse_articles(html, BASE_URL, cutoff_time)
    /\ pc' = "parsed"
    /\ UNCHANGED <<html, envVars, runVars, mergeVars, crawlVars, fetchVars, handlerVars, overlapVars>>

\* get_next_page_url(html, base_url) on the same markup
get_next_page_url_call ==
    /\ pc = "parsed"
    /\ current_url' = get_next_page_url(html, BASE_URL)
    /\ pc' = "linked"
    /\ UNCHANGED <<engine, cutoff_time, max_pages, page_count, all_articles, fetch_log,
                   fetch_failed>>
    /\ UNCHANGED <<parseVars, envVars, runVars, mergeVars, fetchVars, handlerVars, overlapVars>>

NextParse == parse_articles_call \/ get_next_page_url_call

SpecParse == InitParse /\ [][NextParse]_vars

WellFormedLis(lis) ==
    SelectSeq(lis, LAMBDA li : li.has_link /\ li.href # "" /\ ItemTitle(li) # "")

\* C6: every record parse_articles accepts under a cutoff has a date that parses
\* to a time strictly after the cutoff, or a date that does not parse (the empty
\* date included); without a cutoff no well-formed item is rejected.
C6_CutoffCorrectness ==
    pc = "parsed" =>
        /\ cutoff_time # NoneTime =>
             \A i \in DOMAIN page_articles :
                 \/ parse_article_date(page_articles[i].date) = NoneTime
                 \/ parse_article_date(page_articles[i].date) > cutoff_time
        /\ cutoff_time = NoneTime =>
             Len(page_articles) = Len(WellFormedLis(html.items))

C6_Witness ==
    /\ pc = "parsed"
    /\ cutoff_time = HoursPerDay
    /\ Len(html.items) = 2
    /\ html.items[1].span_text = PlainDate(1)
    /\ html.items[2].span_text = JunkDate
    /\ Len(page_articles) = 1
    /\ page_articles[1].date = JunkDate

\* C28: every record parse_articles returns has a non-empty title and a
\* non-empty absolute URL; an item without a link, an href or a title is
\* skipped and the other items are parsed as without it; a page without the
\* container yields the empty sequence; parse_articles and get_next_page_url
\* return on every markup.
C28_ParserOutputValidity ==
    /\ pc \in {"parsed", "linked"} =>
         /\ \A i \in DOMAIN page_articles :
                /\ page_articles[i].title # ""
                /\ page_articles[i].url[1] = Origin
                /\ page_articles[i].url[2] # ""
         /\ ~html.container => page_articles = <<>>
         /\ Len(page_articles) <= Len(WellFormedLis(html.items))
         /\ (html.container /\ cutoff_time = NoneTime) =>
                page_articles = [i \in 1..Len(WellFormedLis(html.items)) |->
                                    ItemRecord(WellFormedLis(html.items)[i], BASE_URL)]
    /\ pc = "linked" =>
         current_url = IF HasNextLink(html) THEN <<Origin, html.next_href>> ELSE NoneUrl

\* an item without a link ahead of a complete item: only the second is returned
C28_Witness ==
    /\ pc = "linked"
    /\ Len(html.items) = 2
    /\ ~html.items[1].has_link
    /\ Len(page_articles) = 1
    /\ page_articles[1] = ItemRecord(html.items[2], BASE_URL)
    /\ current_url = NoneUrl

\* the instants at which a record that shows date_str can have been published:
\* a day-granular date stands for any hour of its day
PublishedTimes(date_str) ==
    IF date_str.fmt = "date"
    THEN {date_str.day * HoursPerDay + h : h \in 0..(HoursPerDay - 1)}
    ELSE IF date_str.fmt = "datetime"
    THEN {date_str.day * HoursPerDay + date_str.hour}
    ELSE {}

\* C32: with cutoff = last_crawl_time - 1 hour, every well-formed item of a
\* parsed page that was published after last_crawl_time is returned, an item
\* with a day-granular date published later on the day of the previous crawl
\* included.
C32_BufferNeverHidesNewer ==
    (pc = "parsed" /\ cutoff_time # NoneTime) =>
        \A i \in DOMAIN html.items :
            LET li == html.items[i]
            IN  (/\ li.has_link /\ li.href # "" /\ ItemTitle(li) # ""
                 /\ \E p \in PublishedTimes(ItemDate(li)) :
                        p > cutoff_time + CutoffBufferHours)
                => \E j \in DOMAIN page_articles :
                       page_articles[j] = ItemRecord(li, BASE_URL)

\* ------------------------------------------------- merge_articles on its own
MergeRecords ==
    {[title |-> "T", date |-> d, url |-> <<Origin, "/a">>] :
        d \in {PlainDate(0), PlainDate(1), DateTime(1, 5)}}
    \cup {[title |-> "T", date |-> d, url |-> <<Origin, "/b">>] :
        d \in {PlainDate(0), DateTime(1, 5), JunkDate}}

InitMerge ==
    /\ pc = "merge"
    /\ existing_articles \in SeqsUpTo(MergeRecords, MaxLen)
    /\ new_articles \in SeqsUpTo(MergeRecords, MaxLen)
    /\ final_articles = <<>>
    /\ EnvIdle /\ RunIdle /\ CrawlIdle /\ ParseIdle /\ FetchIdle /\ HandlerIdle /\ OverlapIdle

merge_articles_call ==
    /\ pc = "merge"
    /\ final_articles' = merge_articles(existing_articles, new_articles)
    /\ pc' = "merged"
    /\ UNCHANGED <<existing_articles, new_articles>>
    /\ UNCHANGED <<envVars, runVars, crawlVars, parseVars, fetchVars, handlerVars, overlapVars>>

\* the same `new` merged once more into the result of the first merge
merge_articles_again ==
    /\ pc = "merged"
    /\ existing_articles' = final_articles
    /\ final_articles' = merge_articles(final_articles, new_articles)
    /\ pc' = "remerged"
    /\ UNCHANGED new_articles
    /\ UNCHANGED <<envVars, runVars, crawlVars, parseVars, fetchVars, handlerVars, overlapVars>>

NextMerge == merge_articles_call \/ merge_articles_again

SpecMerge == InitMerge /\ [][NextMerge]_vars

\* C2: each URL of `new` that is absent from `existing` appears exactly once in
\* merge_articles(existing, new), however often it occurs in `new`.
C2_NewDuplicatesRemoved ==
    pc = "merged" =>
        \A i \in DOMAIN new_articles :
            new_articles[i].url \notin existing_urls(existing_articles) =>
                CountUrl(final_articles, new_articles[i].url) = 1

\* C7: in a result of merge_articles, of two records whose dates parse in one
\* of the known formats (plain date, date and time), the one listed earlier has
\* the later or equal date.
C7_SortInvariant ==
    pc = "merged" =>
        \A i, j \in DOMAIN final_articles :
            (/\ i < j
             /\ parse_article_date(final_articles[i].date) # NoneTime
             /\ parse_article_date(final_articles[j].date) # NoneTime) =>
                parse_article_date(final_articles[i].date)
                    >= parse_article_date(final_articles[j].date)

\* C19: merge_articles(S, S) has the URL set and the length of S, and merging
\* N once more into merge_articles(E, N) adds no record.
C19_DedupIdempotence ==
    /\ (pc = "merged" /\ new_articles = existing_articles) =>
         /\ Len(final_articles) = Len(existing_articles)
         /\ existing_urls(final_articles) = existing_urls(existing_articles)
    /\ pc = "remerged" =>
         /\ Len(final_articles) = Len(existing_articles)
         /\ existing_urls(final_articles) = existing_urls(existing_articles)

C19_Witness ==
    /\ pc = "remerged"
    /\ Len(new_articles) = 2
    /\ new_articles[1].url # new_articles[2].url
    /\ Len(final_articles) = 2
    /\ final_articles = existing_articles

\* the sort key the merge contract names: the parsed date, or the minimum date
\* when the date does not parse
ParsedDateKey(article) ==
    IF parse_article_date(article.date) = NoneTime THEN DatetimeMin
    ELSE parse_article_date(article.date)

\* the place of s[k] in the stable descending sort of s under ParsedDateKey
StableRank(s, k) ==
    Cardinality({m \in DOMAIN s : ParsedDateKey(s[m]) > ParsedDateKey(s[k])})
    + Cardinality({m \in DOMAIN s : m <= k /\ ParsedDateKey(s[m]) = ParsedDateKey(s[k])})

\* `existing` followed by the new records whose URL is not in `existing`
Combined(existing, new) ==
    existing \o SelectSeq(new, LAMBDA a : \A i \in DOMAIN existing : existing[i].url # a.url)

\* C21: merge_articles(existing, new) is exactly the stable descending sort of
\* existing followed by the unique new records, under the key 'parsed date, or
\* the minimum date when the date does not parse': unparseable dates last,
\* equal keys in insertion order.
C21_MergeOrdering ==
    pc = "merged" =>
        LET c == Combined(existing_articles, new_articles)
        IN  /\ Len(final_articles) = Len(c)
            /\ \A k \in DOMAIN c : final_articles[StableRank(c, k)] = c[k]

CountRecord(s, r) == Cardinality({i \in DOMAIN s : s[i] = r})

\* C22: the URL set of merge_articles(existing, new) is the union of the URL
\* sets of both inputs, every record of `existing` appears unchanged, a new
\* record is dropped only if its URL occurs in `existing`, and the call leaves
\* both input sequences as they were.
C22_MergeKeepsExisting ==
    /\ [](pc = "merged" =>
            /\ existing_urls(final_articles) =
                   existing_urls(existing_articles) \cup existing_urls(new_articles)
            /\ \A r \in MergeRecords :
                   CountRecord(final_articles, r) =
                       CountRecord(existing_articles, r)
                       + (IF r.url \in existing_urls(existing_articles) THEN 0
                          ELSE CountRecord(new_articles, r)))
    /\ [][pc = "merge" =>
            existing_articles' = existing_articles /\ new_articles' = new_articles]_vars

\* a merge that kept an existing record, dropped a new record with the same
\* URL and another date, and added a new record with a fresh URL
C22_Witness ==
    /\ pc = "merged"
    /\ \E i \in DOMAIN existing_articles, j, k \in DOMAIN new_articles :
           /\ new_articles[j].url = existing_articles[i].url
           /\ new_articles[j] # existing_articles[i]
           /\ new_articles[k].url \notin existing_urls(existing_articles)
           /\ CountRecord(final_articles, new_articles[j]) = 0
           /\ CountRecord(final_articles, new_articles[k]) = 1

\* ------------------------------------------------------------- fetch_html
\* What one HTTP attempt can give: a 2xx response with a body of `len`
\* characters (blocked: the body holds a blocking phrase), a connect timeout,
\* a read timeout, any other requests error (an HTTP error status included),
\* or an exception that is no RequestException.
Responses ==
    {[kind |-> "ok", len |-> n, blocked |-> b] :
        n \in {MinBodyLen - 1, MinBodyLen}, b \in BOOLEAN}
    \cup {[kind |-> k, len |-> 0, blocked |-> FALSE] :
        k \in {"connect_timeout", "read_timeout", "request_error", "other_error"}}

RetryExtraFlat(kind) == RequestErrorExtra

\* wait_time = (2 ** attempt) + 5, + 3 or + 2, by the except clause taken
RetryExtra(kind) ==
    IF kind = "connect_timeout" THEN ConnectTimeoutExtra
    ELSE IF kind = "read_timeout" THEN ReadTimeoutExtra
    ELSE RequestErrorExtra

\* responses, waits and sent_agents are the attempt-by-attempt history of a
\* fetch_html call that is studied on its own; inside a crawl (the page
\* counter is running) only the counters are kept
Noted(log, x) == IF page_count = 0 THEN Append(log, x) ELSE log

InitFetch ==
    /\ pc = "fetch"
    /\ fetcher \in {"incremental", "basic"}
    /\ retries \in 0..MaxRetries
    /\ attempt = 0
    /\ responses = <<>>
    /\ fetch_status = "running"
    /\ fetch_body = NoResponse
    /\ waits = <<>>
    \* session.headers.update(get_headers()), before the retry loop
    /\ session_ua \in (IF fetcher = "incremental" THEN USER_AGENTS ELSE {FixedAgent})
    /\ ua_selections = (IF fetcher = "incremental" THEN 1 ELSE 0)
    /\ sent_agents = <<>>
    /\ http_requests = 0
    /\ EnvIdle /\ RunIdle /\ MergeIdle /\ CrawlIdle /\ ParseIdle /\ HandlerIdle /\ OverlapIdle

FetchReturn(r) ==
    /\ fetch_status' = "returned"
    /\ fetch_body' = r
    /\ pc' = "fetched"
    /\ UNCHANGED <<attempt, waits>>

FetchRaise ==
    /\ fetch_status' = "raised"
    /\ pc' = "fetched"
    /\ UNCHANGED <<attempt, waits, fetch_body>>

FetchRetry(wait) ==
    /\ attempt' = attempt + 1
    /\ waits' = Noted(waits, wait)
    /\ UNCHANGED <<pc, fetch_status, fetch_body>>

\* one pass of `for attempt in range(retries)` in crawl_bjx_qn_incremental.py
fetch_html_attempt ==
    /\ pc = "fetch"
    /\ fetcher = "incremental"
    /\ attempt < retries
    /\ \E r \in Responses :
         /\ responses' = Noted(responses, r)
         /\ sent_agents' = Noted(sent_agents, session_ua)
         /\ http_requests' = http_requests + 1
         /\ IF r.kind = "ok"
            THEN IF r.len < MinBodyLen /\ attempt < retries - 1
                 THEN FetchRetry(ShortBodyWait)
                 ELSE FetchReturn(r)
            ELSE IF r.kind = "other_error"
            THEN FetchRaise
            ELSE IF attempt < retries - 1
                 THEN FetchRetry(2 ^ attempt + RetryExtra(r.kind))
                 ELSE FetchRaise
    /\ UNCHANGED <<fetcher, retries, session_ua, ua_selections>>
    /\ UNCHANGED <<envVars, runVars, mergeVars, crawlVars, parseVars, handlerVars, overlapVars>>

\* one pass of `for attempt in range(retries)` in crawl_bjx_qn.py
fetch_html_basic_attempt ==
    /\ pc = "fetch"
    /\ fetcher = "basic"
    /\ attempt < retries
    /\ \E r \in Responses :
         /\ responses' = Noted(responses, r)
         /\ sent_agents' = Noted(sent_agents, session_ua)
         /\ http_requests' = http_requests + 1
         /\ IF r.kind = "ok" /\ r.len >= MinBodyLen /\ ~r.blocked
            THEN FetchReturn(r)
            ELSE IF r.kind = "other_error"
            THEN FetchRaise
            ELSE IF attempt < retries - 1
                 THEN FetchRetry(2 ^ attempt)
                 ELSE FetchRaise
    /\ UNCHANGED <<fetcher, retries, session_ua, ua_selections>>
    /\ UNCHANGED <<envVars, runVars, mergeVars, crawlVars, parseVars, handlerVars, overlapVars>>

\* range(retries) is used up without a return or a raise: the function ends
\* and its caller gets None (only when retries <= 0)
fetch_html_fallthrough ==
    /\ pc = "fetch"
    /\ attempt >= retries
    /\ fetch_status' = "returned_none"
    /\ pc' = "fetched"
    /\ UNCHANGED <<fetcher, retries, attempt, responses, fetch_body, waits,
                   session_ua, ua_selections, sent_agents, http_requests>>
    /\ UNCHANGED <<envVars, runVars, mergeVars, crawlVars, parseVars, handlerVars, overlapVars>>

NextFetch == fetch_html_attempt \/ fetch_html_basic_attempt \/ fetch_html_fallthrough

SpecFetch == InitFetch /\ [][NextFetch]_vars

AttemptFailed(r) == r.kind # "ok" \/ r.len < MinBodyLen

\* C10: fetch_html returns markup only from an attempt that succeeded with a
\* body of at least 100 characters, and raises when every one of its `retries`
\* attempts failed by a transport error or by a body under 100 characters.
C10_FetchExhaustion ==
    pc = "fetched" =>
        /\ fetch_status = "returned" =>
             fetch_body.kind = "ok" /\ fetch_body.len >= MinBodyLen
        /\ (/\ Len(responses) = retries
            /\ retries > 0
            /\ \A i \in DOMAIN responses : AttemptFailed(responses[i])) =>
             fetch_status = "raised"

\* the body holds one of the blocking phrases ('captcha', 'access denied', ...)
Blocked(r) == r.kind = "ok" /\ r.blocked

\* C11: a body that holds a blocking indicator is never returned as page
\* markup, by either fetcher; the blocked attempt is retried within the retry
\* budget and the fetch raises when every attempt was blocked.
C11_BlockedNeverReturned ==
    /\ (pc = "fetched" /\ fetch_status = "returned") => ~Blocked(fetch_body)
    /\ \A i \in DOMAIN responses :
         (Blocked(responses[i]) /\ i < retries) =>
             (pc = "fetch" \/ i < Len(responses))
    /\ (/\ pc = "fetched"
        /\ retries > 0
        /\ Len(responses) = retries
        /\ \A i \in DOMAIN responses : Blocked(responses[i])) =>
         fetch_status = "raised"

TransportFailure(r) == r.kind \in {"connect_timeout", "read_timeout", "request_error"}

\* C20: in the incremental fetcher the wait after a transport failure of
\* attempt k (0-indexed) is 2^k seconds plus 5 (connect timeout), 3 (read
\* timeout) or 2 (other request error); at most `retries` attempts are made,
\* the first successful attempt ends the fetch, and no wait follows the last
\* attempt.
C20_RetryBackoff ==
    fetcher = "incremental" =>
        /\ Len(responses) <= retries
        /\ Len(waits) <= Len(responses)
        /\ retries > 0 => Len(waits) <= retries - 1
        /\ (pc = "fetched" /\ responses # <<>>) => Len(waits) = Len(responses) - 1
        /\ \A k \in DOMAIN waits :
             TransportFailure(responses[k]) =>
                 waits[k] = 2 ^ (k - 1)
                            + (CASE responses[k].kind = "connect_timeout" -> ConnectTimeoutExtra
                                 [] responses[k].kind = "read_timeout" -> ReadTimeoutExtra
                                 [] OTHER -> RequestErrorExtra)
        /\ \A i \in DOMAIN responses :
             (responses[i].kind = "ok" /\ responses[i].len >= MinBodyLen) =>
                 /\ i = Len(responses)
                 /\ pc = "fetched"
                 /\ fetch_status = "returned"
                 /\ fetch_body = responses[i]

C20_Witness ==
    /\ fetcher = "incremental"
    /\ pc = "fetched"
    /\ retries = 3
    /\ Len(responses) = 3
    /\ responses[1].kind = "connect_timeout"
    /\ responses[2].kind = "read_timeout"
    /\ responses[3].kind = "ok" /\ responses[3].len >= MinBodyLen
    /\ waits = <<6, 5>>
    /\ fetch_status = "returned"

\* C29: within one call of the incremental fetch_html every attempt selects
\* its User-Agent anew from the pool: the attempts sent so far are backed by
\* as many selections.
C29_IdentityPerAttempt ==
    fetcher = "incremental" =>
        /\ Len(sent_agents) <= ua_selections
        /\ \A i \in DOMAIN sent_agents : sent_agents[i] \in USER_AGENTS

\* ------------------------------------------------------- state and record files
load_crawl_state_unguarded ==
    IF state_file.exists THEN state_file.content ELSE DefaultState

\* load_crawl_state(): the stored dict; the defaults when there is no file or
\* when open, json.load or state.get raised inside the try block
load_crawl_state ==
    IF state_file.exists /\ state_file.form = "state"
    THEN state_file.content ELSE DefaultState

\* load_existing_articles(): the first of the two fixed names that exists
load_existing_articles ==
    IF files["latest_articles.json"].exists THEN files["latest_articles.json"].data
    ELSE IF files["articles.json"].exists THEN files["articles.json"].data
    ELSE <<>>

save_crawl_state_raising(st, ok) ==
    /\ state_file' = IF ok THEN StateFileOf(st) ELSE state_file
    /\ saved' = [called |-> TRUE, ok |-> ok, raised |-> ~ok, content |-> st]

\* save_crawl_state(st): the write succeeds, or fails and is only logged by
\* the except clause, so that nothing is raised to the caller
save_crawl_state(st, ok) ==
    /\ state_file' = IF ok THEN StateFileOf(st) ELSE state_file
    /\ saved' = [called |-> TRUE, ok |-> ok, raised |-> FALSE, content |-> st]

ExitCodeFailure(raised) == 1

\* an exception inside main() ends in its `except Exception: sys.exit(1)`
ExitCode(raised) == IF raised THEN 1 ELSE 0

\* save_to_json(articles, filename), with save_to_csv writing the same records
\* to the CSV file beside it: the write succeeds, or fails and is only logged
save_to_json(articles, filename, ok) ==
    /\ files' = IF ok THEN [files EXCEPT ![filename] = [exists |-> TRUE, data |-> articles]]
                ELSE files
    /\ wrote_records' = ok
    /\ save_to_json_called' = TRUE

\* ------------------------------------------------ load_crawl_state on its own
LoadStates ==
    {[first_run |-> b, last_crawl_time |-> t, total_articles_crawled |-> n] :
        b \in BOOLEAN, t \in {NoneTime, HoursPerDay, BadTime}, n \in 0..MaxLen}

LoadFiles ==
    {NoStateFile}
    \cup {[exists |-> TRUE, form |-> f, content |-> c] : f \in StateForms, c \in LoadStates}

InitLoad ==
    /\ pc = "load"
    /\ state_file \in LoadFiles
    /\ now = 0
    /\ files = [f \in FileNames |-> NoFile]
    /\ output_json = "articles.json"
    /\ site = [items |-> PlainPageItems, next_hrefs |-> {"/zq/2"}, depth |-> SiteDepth]
    /\ runs = 0
    /\ RunIdle /\ MergeIdle /\ CrawlIdle /\ ParseIdle /\ FetchIdle /\ HandlerIdle /\ OverlapIdle

load_crawl_state_call ==
    /\ pc = "load"
    /\ state' = load_crawl_state
    /\ state_read' = TRUE
    /\ pc' = "loaded"
    /\ UNCHANGED <<entry, force_full_crawl, env_max_pages, is_first_run, exit_code,
                   result, saved, wrote_records, save_to_json_called>>
    /\ UNCHANGED <<envVars, mergeVars, crawlVars, parseVars, fetchVars, handlerVars, overlapVars>>

NextLoad == load_crawl_state_call

SpecLoad == InitLoad /\ [][NextLoad]_vars

\* C12: load_crawl_state always returns: the default state when the file is
\* absent, unreadable or malformed, and the stored state unchanged when the
\* file holds a state.
C12_LoadRecovery ==
    pc = "loaded" =>
        /\ state_read
        /\ (~state_file.exists \/ state_file.form # "state") => state = DefaultState
        /\ (state_file.exists /\ state_file.form = "state") => state = state_file.content

C12_Witness ==
    /\ pc = "loaded"
    /\ state_file.exists
    /\ state_file.form = "bad_json"
    /\ state_file.content # DefaultState
    /\ state = DefaultState

CutoffOfNoBuffer(last_crawl_time) == last_crawl_time

\* cutoff_time = last_crawl_time - 1 hour
CutoffOf(last_crawl_time) == last_crawl_time - CutoffBufferHours

MinFirst(a, b) == a

Min(a, b) == IF a < b THEN a ELSE b

\* the call crawl_incremental(BASE_URL, cutoff_time, max_pages) begins
BeginCrawl(cutoff, limit) ==
    /\ engine' = "incremental"
    /\ cutoff_time' = cutoff
    /\ max_pages' = limit
    /\ current_url' = BASE_URL
    /\ page_count' = 0
    /\ all_articles' = <<>>
    /\ fetch_log' = <<>>
    /\ fetch_failed' = FALSE
    /\ pc' = CrawlPc(BASE_URL, 0, limit)

\* the entry points are started by a daily schedule
RunInterval == HoursPerDay

\* a new process starts: the clock has moved on, the locals are fresh
StartRun(e, force, env_pages) ==
    /\ pc \in {"idle", "done"}
    /\ runs < MaxRuns
    /\ runs' = runs + 1
    /\ now' = now + RunInterval
    /\ entry' = e
    /\ force_full_crawl' = force
    /\ env_max_pages' = env_pages
    /\ saved' = NoSave
    /\ wrote_records' = FALSE
    /\ save_to_json_called' = FALSE
    /\ existing_articles' = <<>>
    /\ new_articles' = <<>>
    /\ final_articles' = <<>>
    /\ UNCHANGED <<state_file, files, output_json, site, parseVars, fetchVars, handlerVars, overlapVars>>

\* the run ends before any crawl
EndBeforeCrawl ==
    /\ pc' = "done"
    /\ engine' = "incremental"
    /\ cutoff_time' = NoneTime
    /\ max_pages' = 0
    /\ current_url' = NoneUrl
    /\ page_count' = 0
    /\ all_articles' = <<>>
    /\ fetch_log' = <<>>
    /\ fetch_failed' = FALSE

\* datetime.fromisoformat(last_crawl_time.replace('Z', '+00:00')) raises on a
\* stored value that is no ISO timestamp
FromisoformatRaises(last_crawl_time) == last_crawl_time = BadTime

\* main() of crawl_bjx_qn_incremental.py, up to the call of crawl_incremental
main_start ==
    LET st == load_crawl_state
    IN  /\ StartRun("main", FALSE, 0)
        /\ state' = st
        /\ state_read' = TRUE
        /\ is_first_run' = st.first_run
        /\ result' = NoResult
        /\ IF ~st.first_run /\ FromisoformatRaises(st.last_crawl_time)
           THEN /\ exit_code' = ExitCode(TRUE)
                /\ EndBeforeCrawl
           ELSE /\ exit_code' = -1
                /\ BeginCrawl(IF ~st.first_run /\ st.last_crawl_time # NoneTime
                              THEN CutoffOf(st.last_crawl_time) ELSE NoneTime,
                              IF st.first_run THEN FirstRunMaxPages
                              ELSE IncrementalMaxPages)

LargeMaxPages == 15

\* MAX_PAGES: a small budget, the default, and one whose double is over the ceiling
EnvMaxPages == {1, DefaultMaxPagesCI, LargeMaxPages}

\* is_first_run and cutoff_time as main() of the CI script sets them
CiFirstRun(st, force) == st.first_run \/ force \/ ~files[output_json].exists

\* is_first_run as crawl_and_return_data sets it
ReturnDataFirstRun(st, force) == st.first_run \/ force

FullMode(first, st, force) == ~(~first /\ st.last_crawl_time # NoneTime /\ ~force)

\* main() of crawl_bjx_qn_incremental_ci.py in file mode, up to the crawl
ci_main_start ==
    \E force \in BOOLEAN, env_pages \in EnvMaxPages, connected \in BOOLEAN :
        /\ StartRun("ci", force, env_pages)
        /\ IF ~connected
           THEN /\ exit_code' = 1
                /\ result' = NoResult
                /\ state' = DefaultState
                /\ state_read' = FALSE
                /\ is_first_run' = FALSE
                /\ EndBeforeCrawl
           ELSE LET st == load_crawl_state
                    first == CiFirstRun(st, force)
                IN  /\ state' = st
                    /\ state_read' = TRUE
                    /\ is_first_run' = first
                    /\ result' = NoResult
                    /\ IF FullMode(first, st, force)
                       THEN /\ exit_code' = -1
                            /\ BeginCrawl(NoneTime, Min(env_pages * 2, FullCrawlPageCeiling))
                       ELSE IF FromisoformatRaises(st.last_crawl_time)
                       THEN /\ exit_code' = ExitCode(TRUE)
                            /\ EndBeforeCrawl
                       ELSE /\ exit_code' = -1
                            /\ BeginCrawl(CutoffOf(st.last_crawl_time), env_pages)

Success(articles, new_count, first) ==
    [kind |-> "success", articles |-> articles, new_articles_count |-> new_count,
     total_articles_count |-> Len(articles), is_first_run |-> first,
     warning |-> FALSE, network_error |-> FALSE, error |-> ""]

Degraded(articles, network_error) ==
    [kind |-> "success", articles |-> articles, new_articles_count |-> 0,
     total_articles_count |-> Len(articles), is_first_run |-> FALSE,
     warning |-> TRUE, network_error |-> network_error, error |-> ""]

Failure(error) ==
    [kind |-> "error", articles |-> <<>>, new_articles_count |-> 0,
     total_articles_count |-> 0, is_first_run |-> FALSE,
     warning |-> FALSE, network_error |-> FALSE, error |-> error]

\* `except Exception: return None` of crawl_and_return_data
ReturnedNone ==
    [kind |-> "none_returned", articles |-> <<>>, new_articles_count |-> 0,
     total_articles_count |-> 0, is_first_run |-> FALSE,
     warning |-> FALSE, network_error |-> FALSE, error |-> ""]

\* main() with VERCEL=1: crawl_and_return_data, up to the crawl; the result of
\* an early return is printed and the process exits 0; on None it exits 1
crawl_and_return_data_start ==
    \E force \in BOOLEAN, env_pages \in EnvMaxPages, connected \in BOOLEAN :
        /\ StartRun("vercel", force, env_pages)
        /\ IF ~connected
           THEN /\ result' = IF load_existing_articles # <<>>
                             THEN Degraded(load_existing_articles, TRUE)
                             ELSE Failure("NETWORK_ERROR")
                /\ exit_code' = 0
                /\ state' = DefaultState
                /\ state_read' = FALSE
                /\ is_first_run' = FALSE
                /\ EndBeforeCrawl
           ELSE LET st == load_crawl_state
                    first == ReturnDataFirstRun(st, force)
                IN  /\ state' = st
                    /\ state_read' = TRUE
                    /\ is_first_run' = first
                    /\ IF FullMode(first, st, force)
                       THEN /\ exit_code' = -1
                            /\ result' = NoResult
                            /\ BeginCrawl(NoneTime, Min(env_pages * 2, FullCrawlPageCeiling))
                       ELSE IF FromisoformatRaises(st.last_crawl_time)
                       THEN /\ exit_code' = 1
                            /\ result' = ReturnedNone
                            /\ EndBeforeCrawl
                       ELSE /\ exit_code' = -1
                            /\ result' = NoResult
                            /\ BeginCrawl(CutoffOf(st.last_crawl_time), env_pages)

\* an update of the success path that leaves first_run as it was loaded
UpdatedWithTotalOnly(st, total) ==
    [st EXCEPT !.last_crawl_time = now, !.total_articles_crawled = total]

\* state.update({...}) of the success path
UpdatedWithTotal(st, total) ==
    [st EXCEPT !.last_crawl_time = now, !.total_articles_crawled = total,
               !.first_run = FALSE]

UpdatedNoTotalStale(st) == [st EXCEPT !.first_run = FALSE]

\* state.update({...}) of the 'nothing new' path: the total is left as it was
UpdatedNoTotal(st) == [st EXCEPT !.last_crawl_time = now, !.first_run = FALSE]

\* the locals of the crawl are dropped when crawl_incremental has returned
CrawlReturned ==
    /\ pc = "crawled"
    /\ new_articles' = all_articles
    /\ all_articles' = <<>>
    /\ fetch_log' = <<>>
    /\ fetch_failed' = FALSE
    /\ current_url' = NoneUrl
    /\ page_count' = 0
    /\ pc' = "done"
    /\ UNCHANGED <<engine, cutoff_time, max_pages>>
    /\ UNCHANGED <<now, output_json, site, runs, entry, force_full_crawl, env_max_pages,
                   state, is_first_run, state_read, parseVars, fetchVars, handlerVars, overlapVars>>

\* main() of crawl_bjx_qn_incremental.py, from the return of crawl_incremental
main_finish ==
    /\ entry = "main"
    /\ CrawlReturned
    /\ existing_articles' = IF is_first_run THEN <<>> ELSE load_existing_articles
    /\ final_articles' = IF is_first_run THEN all_articles
                         ELSE merge_articles(load_existing_articles, all_articles)
    /\ result' = NoResult
    /\ \E state_ok \in BOOLEAN, records_ok \in BOOLEAN :
         IF final_articles' = <<>>
         THEN IF is_first_run
              THEN /\ exit_code' = 1
                   /\ UNCHANGED <<state_file, saved, files, wrote_records,
                                  save_to_json_called>>
              ELSE /\ save_crawl_state(UpdatedNoTotal(state), state_ok)
                   /\ exit_code' = ExitCode(saved'.raised)
                   /\ UNCHANGED <<files, wrote_records, save_to_json_called>>
         ELSE /\ save_to_json(final_articles', "articles.json", records_ok)
              /\ save_crawl_state(UpdatedWithTotal(state, Len(final_articles')), state_ok)
              /\ exit_code' = ExitCode(saved'.raised)

\* main() of crawl_bjx_qn_incremental_ci.py in file mode, from the return of
\* crawl_incremental
ci_main_finish ==
    /\ entry = "ci"
    /\ CrawlReturned
    /\ existing_articles' = IF is_first_run \/ force_full_crawl THEN <<>>
                            ELSE load_existing_articles
    /\ result' = NoResult
    /\ LET merged == IF is_first_run \/ force_full_crawl THEN all_articles
                     ELSE merge_articles(load_existing_articles, all_articles)
       IN  \E state_ok \in BOOLEAN, records_ok \in BOOLEAN :
             IF merged = <<>>
             THEN IF is_first_run \/ force_full_crawl
                  THEN /\ final_articles' = merged
                       /\ exit_code' = 1
                       /\ UNCHANGED <<state_file, saved, files, wrote_records,
                                      save_to_json_called>>
                  ELSE /\ final_articles' = load_existing_articles
                       /\ save_crawl_state(UpdatedNoTotal(state), state_ok)
                       /\ IF saved'.raised
                          THEN UNCHANGED <<files, wrote_records, save_to_json_called>>
                          ELSE save_to_json(load_existing_articles, output_json, records_ok)
                       /\ exit_code' = ExitCode(saved'.raised)
             ELSE /\ final_articles' = merged
                  /\ save_to_json(merged, output_json, records_ok)
                  /\ save_crawl_state(UpdatedWithTotal(state, Len(merged)), state_ok)
                  /\ exit_code' = ExitCode(saved'.raised)

\* a value-returning mode that saves the refreshed state as the file mode does
ReturnDataSavesState ==
    /\ save_crawl_state(UpdatedNoTotal(state), TRUE)
    /\ UNCHANGED <<files, wrote_records, save_to_json_called>>

\* crawl_and_return_data hands its result to the caller: it calls neither
\* save_crawl_state nor save_to_json / save_to_csv
ReturnDataPersistsNothing ==
    UNCHANGED <<state_file, saved, files, wrote_records, save_to_json_called>>

\* crawl_and_return_data from the return of crawl_incremental; main() prints
\* the result and exits 0
crawl_and_return_data_finish ==
    /\ entry = "vercel"
    /\ CrawlReturned
    /\ existing_articles' = IF is_first_run \/ force_full_crawl THEN <<>>
                            ELSE load_existing_articles
    /\ exit_code' = 0
    /\ LET merged == IF is_first_run \/ force_full_crawl THEN all_articles
                     ELSE merge_articles(load_existing_articles, all_articles)
       IN  IF merged = <<>>
           THEN IF is_first_run \/ force_full_crawl
                THEN /\ final_articles' = merged
                     /\ result' = IF load_existing_articles # <<>>
                                  THEN Degraded(load_existing_articles, FALSE)
                                  ELSE Failure("NO_ARTICLES_FOUND")
                ELSE /\ final_articles' = load_existing_articles
                     /\ result' = Success(load_existing_articles, Len(all_articles),
                                          is_first_run \/ force_full_crawl)
           ELSE /\ final_articles' = merged
                /\ result' = Success(merged, Len(all_articles),
                                     is_first_run \/ force_full_crawl)
    /\ ReturnDataPersistsNothing

\* --------------------------------------------------- runs, one after another
Init ==
    /\ pc = "idle"
    /\ now = 0
    /\ state_file = NoStateFile
    /\ files = [f \in FileNames |-> NoFile]
    /\ output_json \in FileNames
    /\ site = [items |-> PlainPageItems, next_hrefs |-> {"/zq/2"},
               depth |-> SiteDepth]
    /\ runs = 0
    /\ RunIdle /\ MergeIdle /\ CrawlIdle /\ ParseIdle /\ FetchIdle /\ HandlerIdle /\ OverlapIdle

Next ==
    \/ main_start
    \/ ci_main_start
    \/ crawl_and_return_data_start
    \/ crawl_incremental_page
    \/ main_finish
    \/ ci_main_finish
    \/ crawl_and_return_data_finish

Spec == Init /\ [][Next]_vars

\* the JSON record file an entry point writes
RecordFile == IF entry = "main" THEN "articles.json" ELSE output_json

\* C1: the final record set a run produces holds no two records with the same
\* url: first, incremental and forced-full runs, in file mode and in
\* value-returning mode.
C1_FinalSetNoDuplicateUrls ==
    (pc = "done" /\ entry # "none") => NoDupUrls(final_articles)

\* C8: at the end of a run that wrote the state, total_articles_crawled in the
\* state file equals the number of records the run wrote to the record file.
C8_CounterEqualsWrittenSet ==
    (pc = "done" /\ saved.called /\ saved.ok /\ wrote_records) =>
        state_file.content.total_articles_crawled = Len(files[RecordFile].data)

\* a run that ended in success or in a benign no-op
RunSucceeded ==
    /\ pc = "done"
    /\ \/ entry \in {"main", "ci"} /\ exit_code = 0
       \/ entry = "vercel" /\ result.kind = "success" /\ ~result.warning

\* the run read the state and passed it on to save_crawl_state with
\* last_crawl_time set to the present time
StateRefreshed ==
    /\ state_read
    /\ saved.called
    /\ saved.content.last_crawl_time = now
    /\ saved.content.last_crawl_time > state.last_crawl_time
    /\ saved.ok => state_file = StateFileOf(saved.content)

\* C9 as stated: every run that ends in success or in a benign no-op, through
\* any of the three entry points, has read the state and rewritten it with a
\* refreshed last_crawl_time.
C9_EveryEntryPointRewritesState == RunSucceeded => StateRefreshed

\* C9 as amended: a run of the standalone main or of the CI main in file mode
\* that ends in success or in a benign no-op has read the state and has saved
\* it with last_crawl_time refreshed to the present time (the file holds it
\* unless the write failed); crawl_and_return_data never saves the state.
C9_FileModeRewritesState ==
    /\ (RunSucceeded /\ entry \in {"main", "ci"}) => StateRefreshed
    /\ (pc = "done" /\ entry = "vercel") => ~saved.called

C9_Witness ==
    /\ pc = "done"
    /\ entry = "ci"
    /\ exit_code = 0
    /\ cutoff_time # NoneTime
    /\ new_articles = <<>>
    /\ final_articles = <<>>
    /\ saved.called /\ saved.ok
    /\ state_file.content.last_crawl_time = now

\* C13: when the write of the state file fails, save_crawl_state raises
\* nothing and the run ends as it does when the write succeeds: exit code 0,
\* and the record files written on every path that writes them.
C13_SaveFailureIsNotFatal ==
    (pc = "done" /\ saved.called) =>
        /\ ~saved.raised
        /\ exit_code = 0
        /\ save_to_json_called <=> (entry = "ci" \/ final_articles # <<>>)

C13_Witness ==
    /\ pc = "done"
    /\ entry = "ci"
    /\ cutoff_time # NoneTime
    /\ new_articles = <<>>
    /\ saved.called /\ ~saved.ok
    /\ state_file.content.last_crawl_time < now
    /\ exit_code = 0
    /\ save_to_json_called /\ wrote_records

\* a run is in its crawl, or has just left it: the state is loaded, the cutoff
\* is set and no file has been written yet
InCrawl == entry # "none" /\ pc \in {"crawl", "crawled"}

\* C14 as stated: the cutoff is active, and equal to last_crawl_time minus one
\* hour, exactly when force_full_crawl is false and the loaded state has a
\* last_crawl_time, in every entry point.
C14_CutoffIffTimestampAndNotForced ==
    InCrawl =>
        IF ~force_full_crawl /\ state.last_crawl_time # NoneTime
        THEN cutoff_time = state.last_crawl_time - CutoffBufferHours
        ELSE cutoff_time = NoneTime

\* C14 as amended: the cutoff is active only when force_full_crawl is false and
\* the loaded state has a last_crawl_time, and it is then last_crawl_time
\* minus one hour; the converse holds in the standalone main and in
\* crawl_and_return_data, while the CI main in file mode also needs the
\* OUTPUT_JSON file to exist at the start of the run.
C14_CutoffActivation ==
    InCrawl =>
        /\ cutoff_time # NoneTime =>
             /\ ~force_full_crawl
             /\ state.last_crawl_time # NoneTime
             /\ cutoff_time = state.last_crawl_time - CutoffBufferHours
        /\ (~force_full_crawl /\ state.last_crawl_time # NoneTime) =>
             (cutoff_time # NoneTime <=> (entry = "ci" => files[output_json].exists))

C14_Witness ==
    /\ InCrawl
    /\ entry = "ci"
    /\ ~force_full_crawl
    /\ state.last_crawl_time # NoneTime
    /\ ~files[output_json].exists
    /\ cutoff_time = NoneTime

\* C15: with force_full_crawl the crawl has no cutoff and a page budget of
\* min(2 * max_pages, 20), whatever state is stored; with an active cutoff the
\* page budget is max_pages as given.
C15_ForcedFullCrawlBudget ==
    (InCrawl /\ entry \in {"ci", "vercel"}) =>
        /\ force_full_crawl =>
             /\ cutoff_time = NoneTime
             /\ max_pages = IF 2 * env_max_pages < FullCrawlPageCeiling
                            THEN 2 * env_max_pages ELSE FullCrawlPageCeiling
        /\ cutoff_time # NoneTime => max_pages = env_max_pages

C15_Witness ==
    /\ InCrawl
    /\ entry = "ci"
    /\ force_full_crawl
    /\ state.last_crawl_time # NoneTime
    /\ files[output_json].exists
    /\ env_max_pages = LargeMaxPages
    /\ max_pages = FullCrawlPageCeiling
    /\ cutoff_time = NoneTime

\* a run that ended in failure: exit code 1, or an error result
RunFailed ==
    /\ pc = "done"
    /\ \/ entry \in {"main", "ci"} /\ exit_code = 1
       \/ entry = "vercel" /\ result.kind # "success"

\* records persisted by an earlier run, under any of the names in use
PersistedRecords == load_existing_articles # <<>> \/ files[RecordFile].data # <<>>

\* C16: a run whose crawl ended with zero records fails only if it was a first
\* or forced-full crawl and no persisted records exist; an incremental run that
\* finds nothing new ends in success; in every entry point.
C16_NoArticlesFound ==
    (pc = "done" /\ entry # "none" /\ state_read /\ new_articles = <<>>) =>
        /\ RunFailed => (cutoff_time = NoneTime /\ ~PersistedRecords)
        /\ cutoff_time # NoneTime => ~RunFailed

\* a run that test_network_connectivity() ended before the state was loaded
PreflightFailed == pc = "done" /\ entry \in {"ci", "vercel"} /\ ~state_read

\* C17: when the pre-flight connectivity check fails and persisted records
\* exist, the run hands back those records with a warning and does not fail;
\* it fetches no page and writes neither state nor records; it fails hard only
\* when no persisted records exist; in every entry point with a pre-flight check.
C17_NetworkUnavailable ==
    PreflightFailed =>
        /\ new_articles = <<>> /\ max_pages = 0
        /\ ~saved.called /\ ~save_to_json_called
        /\ PersistedRecords =>
             /\ ~RunFailed
             /\ entry = "vercel" => result = Degraded(load_existing_articles, TRUE)
        /\ RunFailed => ~PersistedRecords

CiRunEnded == pc = "done" /\ entry = "ci"

\* C26 as stated: a run of the CI main in file mode ends with exit code 0 or
\* 1; after exit 1 neither the state file nor a record file was touched; after
\* exit 0 the record file is written and the state is saved.
C26_ExitZeroMeansWritten ==
    CiRunEnded =>
        /\ exit_code \in {0, 1}
        /\ exit_code = 1 => ~saved.called /\ ~save_to_json_called
        /\ exit_code = 0 =>
              /\ wrote_records /\ files[output_json] = [exists |-> TRUE, data |-> final_articles]
              /\ saved.ok /\ state_file = StateFileOf(saved.content)

\* C26: a run of the CI main in file mode ends with exit code 0 or 1; after
\* exit 1 it has called neither save_crawl_state nor save_to_json; after exit 0
\* it has called both, and each file holds what was passed unless its write
\* failed, which is only logged.
C26_ExitSignalAndWriteCalls ==
    CiRunEnded =>
        /\ exit_code \in {0, 1}
        /\ exit_code = 1 => ~saved.called /\ ~save_to_json_called
        /\ exit_code = 0 =>
              /\ save_to_json_called
              /\ wrote_records =>
                    files[output_json] = [exists |-> TRUE, data |-> final_articles]
              /\ saved.called
              /\ saved.content.last_crawl_time = now
              /\ saved.ok => state_file = StateFileOf(saved.content)

\* a run that exits 0 although the write of the record file failed
C26_Witness ==
    /\ CiRunEnded
    /\ exit_code = 0
    /\ final_articles # <<>>
    /\ save_to_json_called
    /\ ~wrote_records
    /\ saved.ok

\* C30: across consecutive non-forced incremental runs in file mode, every
\* record in the record file that the earlier run wrote is in the record file
\* that the next run writes, and the set the next run merges into is the set
\* the earlier run wrote, whatever OUTPUT_JSON is.
C30_PersistedSetOnlyGrows ==
    [][(/\ pc = "crawled" /\ pc' = "done"
        /\ entry \in {"main", "ci"}
        /\ ~force_full_crawl /\ cutoff_time # NoneTime
        /\ files[RecordFile].exists
        /\ wrote_records')
       => /\ existing_articles' = files[RecordFile].data
          /\ \A i \in DOMAIN files[RecordFile].data :
                 \E j \in DOMAIN files'[RecordFile].data :
                     files'[RecordFile].data[j] = files[RecordFile].data[i]]_vars

\* C31: a run whose crawl was cut short by a fetch failure does not advance
\* last_crawl_time in the state file.
C31_FailedCrawlKeepsCutoff ==
    [][(pc = "crawled" /\ fetch_failed /\ pc' = "done")
       => state_file'.content.last_crawl_time = state_file.content.last_crawl_time]_vars

\* C33: in file mode a run whose crawl returned zero records because of a
\* fetch failure never replaces a non-empty record file with an empty one: it
\* ends without writing, or rewrites the records that were persisted.
C33_NoWipeOnCrawlFailure ==
    [][(/\ pc = "crawled" /\ fetch_failed /\ all_articles = <<>>
        /\ pc' = "done" /\ entry \in {"main", "ci"})
       => \A f \in FileNames : files[f].data # <<>> => files'[f].data # <<>>]_vars

\* the number of new articles a run reports: new_articles_count of the returned
\* object, NEW_ARTICLES_COUNT={len(new_articles)} of the CI main
ReportedNewCount ==
    IF entry = "vercel" THEN result.new_articles_count ELSE Len(new_articles)

\* C34: on every incremental run the reported number of new articles is the
\* number of records the run added to the persisted set: the size of the
\* final set minus the size of the set persisted before.
C34_NewRecordCount ==
    (/\ pc = "done" /\ entry \in {"ci", "vercel"}
     /\ cutoff_time # NoneTime
     /\ entry = "ci" => exit_code = 0
     /\ entry = "vercel" => result.kind = "success")
    => ReportedNewCount = Len(final_articles) - Len(existing_articles)

\* C35: every state the program writes has first_run = false and a
\* last_crawl_time; across successive writes last_crawl_time never decreases;
\* once a state is saved, loading the intact file never yields first_run = true.
C35_WrittenStateNotFirstRun ==
    /\ [](saved.called =>
            /\ ~saved.content.first_run
            /\ saved.content.last_crawl_time # NoneTime)
    /\ [](state_file.exists =>
            /\ state_file.form = "state"
            /\ ~state_file.content.first_run
            /\ state_file.content.last_crawl_time # NoneTime
            /\ ~load_crawl_state.first_run)
    /\ [][state_file.exists =>
            /\ state_file'.exists
            /\ state_file'.content.last_crawl_time >= state_file.content.last_crawl_time]_vars

\* a second run loaded the state the first run saved and saved a later one
C35_Witness ==
    /\ pc = "done"
    /\ runs = 2
    /\ state_read
    /\ ~state.first_run
    /\ state.last_crawl_time # NoneTime
    /\ saved.called /\ saved.ok
    /\ state_file.content.last_crawl_time > state.last_crawl_time

\* ---------------------------------- crawl_and_return_data over stored contents
ReturnDataStateFiles ==
    {NoStateFile}
    \cup {[exists |-> TRUE, form |-> f, content |-> c] :
            f \in StateForms,
            c \in {st \in LoadStates : st.total_articles_crawled = 0}}

ReturnDataRecordFiles ==
    {NoFile, [exists |-> TRUE, data |-> <<ItemRecord(ItemA, BASE_URL)>>]}

InitReturnData ==
    /\ pc = "idle"
    /\ now = HoursPerDay
    /\ state_file \in ReturnDataStateFiles
    /\ \E f \in ReturnDataRecordFiles :
         files = [n \in FileNames |-> IF n = "articles.json" THEN f ELSE NoFile]
    /\ output_json = "articles.json"
    /\ site = [items |-> PlainPageItems, next_hrefs |-> {"/zq/2"}, depth |-> SiteDepth]
    /\ runs = 0
    /\ RunIdle /\ MergeIdle /\ CrawlIdle /\ ParseIdle /\ FetchIdle /\ HandlerIdle /\ OverlapIdle

NextReturnData ==
    \/ crawl_and_return_data_start
    \/ crawl_incremental_page
    \/ crawl_and_return_data_finish

SpecReturnData == InitReturnData /\ [][NextReturnData]_vars

\* C18: whatever the state file and the record files hold and however the
\* crawl goes, crawl_and_return_data returns a success object (articles and
\* counts, total_articles_count = the number of articles) or a failure object
\* (error, message, details), never both and never anything else.
C18_ResultShape ==
    (pc = "done" /\ entry = "vercel") =>
        /\ result.kind \in {"success", "error"}
        /\ result.kind = "success" =>
             /\ result.error = ""
             /\ result.total_articles_count = Len(result.articles)
        /\ result.kind = "error" =>
             /\ result.error # ""
             /\ result.articles = <<>>

\* ------------------------------------------------ the HTTP handler on its own
JsonObjects ==
    [has_error : BOOLEAN, has_articles : BOOLEAN, n_articles : 0..MaxLen,
     has_total : BOOLEAN, has_warning : BOOLEAN, network_error : BOOLEAN]

\* json.dumps(result) of crawl_and_return_data, as main() prints it to stdout
CrawlerObject(res) ==
    [has_error |-> res.kind = "error", has_articles |-> res.kind = "success",
     n_articles |-> Len(res.articles), has_total |-> res.kind = "success",
     has_warning |-> res.warning, network_error |-> res.network_error]

\* How the request can go up to the reading of the crawler's output:
\*   "server_error"  an exception before subprocess.run is reached
\*   "no_script"     the crawler script is not in the working directory
\*   "spawn_error"   subprocess.run raises something other than TimeoutExpired
\*   "timeout"       subprocess.run raises TimeoutExpired
\*   "exited"        the subprocess ended with returncode and a stdout that is
\*                   no JSON, a JSON value that is no object, or a JSON object
ProcOutcomes ==
    {[kind |-> k, returncode |-> 0, form |-> "not_json", obj |-> NoObject] :
        k \in {"server_error", "no_script", "spawn_error", "timeout"}}
    \cup {[kind |-> "exited", returncode |-> c, form |-> f, obj |-> NoObject] :
            c \in {0, 1}, f \in {"not_json", "json_value"}}
    \cup {[kind |-> "exited", returncode |-> c, form |-> "json_object", obj |-> o] :
            c \in {0, 1}, o \in JsonObjects}

InitHandler ==
    /\ pc = "request"
    /\ proc \in ProcOutcomes
    /\ bodies = <<>>
    /\ notified = "none"
    /\ EnvIdle /\ RunIdle /\ MergeIdle /\ CrawlIdle /\ ParseIdle /\ FetchIdle
    /\ OverlapIdle

FailureBody(error) ==
    [success |-> FALSE, error |-> error, articlesCount |-> 0,
     has_warning |-> FALSE, networkError |-> FALSE]

SuccessBody(o) ==
    [success |-> TRUE, error |-> "", articlesCount |-> o.n_articles,
     has_warning |-> o.has_warning, networkError |-> o.network_error]

IsErrorResultNever(p) == FALSE

\* isinstance(crawler_result, dict) and 'error' in crawler_result
IsErrorResult(p) == p.form = "json_object" /\ p.obj.has_error

\* the body the handler writes for an outcome, and the e-mail it hands over
ResponseFor(p) ==
    IF p.kind = "server_error" THEN FailureBody("Server error")
    ELSE IF p.kind = "no_script" THEN FailureBody("Crawler script not found")
    ELSE IF p.kind = "timeout" THEN FailureBody("Crawler timed out after 5 minutes")
    ELSE IF p.kind = "spawn_error" THEN FailureBody("Failed to run crawler")
    ELSE IF p.returncode # 0 THEN FailureBody("Crawler failed")
    ELSE IF p.form = "not_json" THEN FailureBody("Failed to parse crawler output")
    ELSE IF IsErrorResult(p) THEN FailureBody("crawler_result['error']")
    \* crawler_result['articles'] on a value that is no object, or without the
    \* key, raises inside the try block: `except Exception` answers
    ELSE IF p.form = "json_value" \/ ~p.obj.has_articles \/ ~p.obj.has_total
         THEN FailureBody("Failed to run crawler")
    ELSE SuccessBody(p.obj)

\* handler._handle_request: one request, from the headers to the return
handle_request ==
    /\ pc = "request"
    /\ bodies' = Append(bodies, ResponseFor(proc))
    /\ notified' = IF proc.kind = "no_script" THEN "none"
                   ELSE IF ResponseFor(proc).success THEN "success" ELSE "failure"
    /\ pc' = "responded"
    /\ UNCHANGED proc
    /\ UNCHANGED <<envVars, runVars, mergeVars, crawlVars, parseVars, fetchVars,
                   overlapVars>>

NextHandler == handle_request

SpecHandler == InitHandler /\ [][NextHandler]_vars

\* C27: the handler answers success: true only when the subprocess exited 0,
\* its stdout parsed as JSON and the object had no error field; a result with
\* warning / network_error is answered as success with warning / networkError
\* copied; a non-zero exit, unparseable output, an error field and a timeout
\* are answered success: false; one response body is written per request.
C27_HandlerVerdict ==
    pc = "responded" =>
        LET exited0 == proc.kind = "exited" /\ proc.returncode = 0
            failed == \/ proc.kind = "timeout"
                      \/ proc.kind = "exited" /\ proc.returncode # 0
                      \/ proc.kind = "exited" /\ proc.form = "not_json"
                      \/ proc.kind = "exited" /\ proc.form = "json_object"
                                              /\ proc.obj.has_error
            crawler_success ==
                /\ exited0 /\ proc.form = "json_object"
                /\ \E res \in {Success(<<>>, 0, FALSE), Degraded(<<>>, TRUE),
                               Degraded(<<>>, FALSE)} :
                       [proc.obj EXCEPT !.n_articles = 0] = CrawlerObject(res)
        IN  /\ Len(bodies) = 1
            /\ bodies[1].success =>
                   (exited0 /\ proc.form = "json_object" /\ ~proc.obj.has_error)
            /\ failed => ~bodies[1].success
            /\ crawler_success =>
                   /\ bodies[1].success
                   /\ bodies[1].has_warning = proc.obj.has_warning
                   /\ bodies[1].networkError = proc.obj.network_error
                   /\ bodies[1].articlesCount = proc.obj.n_articles

\* a fallback result of the crawler (warning, network_error) answered as success
C27_Witness ==
    /\ pc = "responded"
    /\ proc.kind = "exited" /\ proc.returncode = 0
    /\ proc.obj = [CrawlerObject(Degraded(<<>>, TRUE)) EXCEPT !.n_articles = 1]
    /\ bodies[1].success
    /\ bodies[1].has_warning
    /\ bodies[1].networkError
    /\ notified = "success"

\* C36: an invocation of crawl_and_return_data leaves the state file and the
\* record files unchanged on every path, so that a second invocation with the
\* same settings loads the same state and computes the same cutoff.
C36_ReturnDataWritesNothing ==
    /\ [](entry = "vercel" => ~saved.called /\ ~save_to_json_called)
    /\ [][entry' = "vercel" => state_file' = state_file /\ files' = files]_vars
    /\ [][(/\ entry = "vercel" /\ pc = "done" /\ state_read
           /\ entry' = "vercel" /\ state_read'
           /\ force_full_crawl' = force_full_crawl)
          => state' = state /\ cutoff_time' = cutoff_time]_vars

\* a second invocation that crawled under the cutoff of the first and found
\* new records
C36_Witness ==
    /\ entry = "vercel"
    /\ runs = 2
    /\ pc = "done"
    /\ cutoff_time # NoneTime
    /\ result.kind = "success"
    /\ result.new_articles_count > 0
    /\ state_file.exists
    /\ state_file.content = state

\* ------------------------------- crawl_incremental with fetch_html inside
\* def fetch_html(url, timeout=15, retries=5): the engine calls it with the
\* default number of attempts
DefaultRetries == 5

\* a site whose 'next' link leads back to the listing, for ever
InitCrawlFetch ==
    /\ engine = "incremental"
    /\ cutoff_time \in {NoneTime, HoursPerDay}
    /\ max_pages \in 0..MaxPagesArg
    /\ current_url = BASE_URL
    /\ page_count = 0
    /\ all_articles = <<>>
    /\ fetch_log = <<>>
    /\ fetch_failed = FALSE
    /\ pc = CrawlPc(current_url, page_count, max_pages)
    /\ now = 0
    /\ state_file = NoStateFile
    /\ files = [f \in FileNames |-> NoFile]
    /\ output_json = "articles.json"
    /\ site = [items |-> {<<>>, <<ItemA>>}, next_hrefs |-> {"/zq"},
               depth |-> MaxPagesArg + 1]
    /\ runs = 0
    /\ RunIdle /\ MergeIdle /\ ParseIdle /\ FetchIdle /\ HandlerIdle /\ OverlapIdle

\* the loop test passed: page_count += 1, and fetch_html(current_url) opens
\* its session and picks its headers
crawl_incremental_fetch ==
    /\ pc = "crawl"
    /\ engine = "incremental"
    /\ LoopCond(current_url, page_count, max_pages)
    /\ page_count' = page_count + 1
    /\ pc' = "fetch"
    /\ fetcher' = "incremental"
    /\ retries' = DefaultRetries
    /\ attempt' = 0
    /\ fetch_status' = "running"
    /\ fetch_body' = NoResponse
    /\ \E ua \in USER_AGENTS : session_ua' = ua
    /\ ua_selections' = ua_selections + 1
    /\ UNCHANGED <<responses, waits, sent_agents, http_requests>>
    /\ UNCHANGED <<engine, cutoff_time, max_pages, current_url, all_articles,
                   fetch_log, fetch_failed>>
    /\ UNCHANGED <<envVars, runVars, mergeVars, parseVars, handlerVars, overlapVars>>

\* fetch_html has raised or returned: the rest of the iteration
crawl_incremental_fetched ==
    /\ pc = "fetched"
    /\ engine = "incremental"
    /\ page_count > 0
    /\ fetch_status \in {"raised", "returned"}
    /\ \E res \in FetchResults(page_count) :
         /\ res.raised = (fetch_status = "raised")
         /\ IncrementalIteration(res, page_count)
    /\ attempt' = 0
    /\ fetch_status' = "idle"
    /\ fetch_body' = NoResponse
    /\ session_ua' = FixedAgent
    /\ UNCHANGED <<fetcher, retries, responses, waits, sent_agents,
                   ua_selections, http_requests>>
    /\ UNCHANGED <<engine, cutoff_time, max_pages, page_count>>
    /\ UNCHANGED <<envVars, runVars, mergeVars, parseVars, handlerVars, overlapVars>>

NextCrawlFetch ==
    crawl_incremental_fetch \/ fetch_html_attempt \/ crawl_incremental_fetched

\* every request returns or times out, every sleep ends, and the interpreter
\* goes on to the next statement
SpecCrawlFetch ==
    InitCrawlFetch /\ [][NextCrawlFetch]_vars /\ WF_vars(NextCrawlFetch)

\* C37: crawl_incremental returns in the end whatever the site does (a 'next'
\* link that never ends, any mix of failing and succeeding requests), and
\* by then it has made at most max_pages * 5 HTTP request attempts.
C37_CrawlTerminates ==
    /\ <>(pc = "crawled")
    /\ [](http_requests <= max_pages * DefaultRetries)
    /\ [](pc = "fetch" => attempt < retries)

\* a crawl that used up the cap on a site that always had a next page, every
\* page on its last attempt
C37_Witness ==
    /\ pc = "crawled"
    /\ max_pages = MaxPagesArg
    /\ page_count = max_pages
    /\ http_requests = max_pages * DefaultRetries
    /\ ~fetch_failed
    /\ current_url = urljoin(BASE_URL, "/zq")

\* ------------------------------------ two file-mode runs without serialization
\* Two processes run main() of crawl_bjx_qn_incremental_ci.py in the same
\* directory. Each keeps its locals in job[p]; the files are shared. A file
\* opened with open(name, 'w') is emptied at once and receives the bytes
\* when the `with` block ends; a process writes from its own offset 0, over
\* whatever another process has flushed since the file was emptied.
StoredRecords == <<ItemRecord(ItemA, BASE_URL)>>
StoredState == [first_run |-> FALSE, last_crawl_time |-> HoursPerDay,
                total_articles_crawled |-> Len(StoredRecords)]

InitOverlap ==
    /\ pc = "overlap"
    /\ now = HoursPerDay + CutoffBufferHours
    /\ state_file = StateFileOf(StoredState)
    /\ files = [f \in FileNames |->
                  IF f = "articles.json"
                  THEN [exists |-> TRUE, data |-> StoredRecords] ELSE NoFile]
    /\ output_json = "articles.json"
    /\ site = [items |-> PlainPageItems, next_hrefs |-> {"/zq/2"},
               depth |-> SiteDepth]
    /\ runs = 0
    /\ job = [p \in Jobs |-> [IdleJob EXCEPT !.pc = "start"]]
    /\ truncated = FALSE
    /\ RunIdle /\ MergeIdle /\ CrawlIdle /\ ParseIdle /\ FetchIdle /\ HandlerIdle

OverlapFrame ==
    UNCHANGED <<pc, output_json, site, runs, runVars, mergeVars, crawlVars,
                parseVars, fetchVars, handlerVars>>

\* the bytes of `written`, put at offset 0 over the bytes `present`
Overlay(written, present) ==
    written \o SubSeq(present, Len(written) + 1, Len(present))

\* state = load_crawl_state(), is_first_run and cutoff_time
job_start(p) ==
    /\ job[p].pc = "start"
    /\ LET st == load_crawl_state
           first == st.first_run \/ ~files[output_json].exists
       IN  job' = [job EXCEPT ![p] =
                     [@ EXCEPT !.pc = "crawl", !.state = st, !.is_first_run = first,
                               !.cutoff_time =
                                   IF ~first /\ st.last_crawl_time # NoneTime
                                   THEN CutoffOf(st.last_crawl_time)
                                   ELSE NoneTime]]
    /\ UNCHANGED <<now, state_file, files, truncated>>
    /\ OverlapFrame

\* new_articles = crawl_incremental(BASE_URL, cutoff_time, max_pages), for a
\* listing of one page that the site may change between two crawls
job_crawl(p) ==
    /\ job[p].pc = "crawl"
    /\ \E its \in site.items :
         job' = [job EXCEPT ![p] =
                   [@ EXCEPT !.pc = "merge",
                             !.new_articles =
                                 parse_articles(Page(its, FALSE, FALSE, FALSE, ""),
                                                BASE_URL, job[p].cutoff_time)]]
    /\ UNCHANGED <<now, state_file, files, truncated>>
    /\ OverlapFrame

\* existing_articles = load_existing_articles(), the merge, and the choice
\* of the path: exit 1 after an empty full crawl, the 'nothing new' path
\* (state first, then the files), or the success path (files, then state)
job_merge(p) ==
    /\ job[p].pc = "merge"
    /\ LET j == job[p]
           final == IF j.is_first_run THEN j.new_articles
                    ELSE merge_articles(load_existing_articles, j.new_articles)
           before == \A q \in Jobs : ~job[q].writing
       IN  job' = [job EXCEPT ![p] =
                     IF final = <<>> /\ j.is_first_run
                     THEN [@ EXCEPT !.pc = "done", !.exit_code = 1, !.early = before]
                     ELSE IF final = <<>>
                     THEN [@ EXCEPT !.pc = "open_state", !.path = "nothing_new",
                                    !.final_articles = load_existing_articles,
                                    !.early = before]
                     ELSE [@ EXCEPT !.pc = "open_json", !.path = "success",
                                    !.final_articles = final, !.early = before]]
    /\ UNCHANGED <<now, state_file, files, truncated>>
    /\ OverlapFrame

\* save_to_json: open(filename, 'w') empties the file
job_open_json(p) ==
    /\ job[p].pc = "open_json"
    /\ files' = [files EXCEPT ![output_json] = [exists |-> TRUE, data |-> <<>>]]
    /\ job' = [job EXCEPT ![p] = [@ EXCEPT !.pc = "close_json", !.writing = TRUE]]
    /\ UNCHANGED <<now, state_file, truncated>>
    /\ OverlapFrame

\* save_to_json: json.dump and the end of the `with` block
job_close_json(p) ==
    /\ job[p].pc = "close_json"
    /\ files' = [files EXCEPT ![output_json] =
                   [exists |-> TRUE,
                    data |-> Overlay(job[p].final_articles, files[output_json].data)]]
    /\ job' = [job EXCEPT ![p] =
                 [@ EXCEPT !.pc = IF job[p].path = "success" THEN "open_state"
                                  ELSE "done"]]
    /\ UNCHANGED <<now, state_file, truncated>>
    /\ OverlapFrame

\* state.update({...}) with the clock of that moment, then save_crawl_state:
\* open(CRAWL_STATE_FILE, 'w') empties the file
job_open_state(p) ==
    /\ job[p].pc = "open_state"
    /\ job' = [job EXCEPT ![p] =
                 [@ EXCEPT !.pc = "close_state", !.writing = TRUE,
                           !.state =
                               IF job[p].path = "success"
                               THEN UpdatedWithTotal(job[p].state,
                                                     Len(job[p].final_articles))
                               ELSE UpdatedNoTotal(job[p].state)]]
    /\ now' = now + 1
    /\ state_file' = [exists |-> TRUE, form |-> "bad_json",
                      content |-> state_file.content]
    /\ truncated' = TRUE
    /\ UNCHANGED files
    /\ OverlapFrame

\* save_crawl_state: json.dump and the end of the `with` block. Over an empty
\* file the bytes are those of the state; over the bytes another process has
\* flushed in between they replace them, or leave a tail of them behind
job_close_state(p) ==
    /\ job[p].pc = "close_state"
    /\ \E form \in (IF truncated THEN {"state"} ELSE {"state", "bad_json"}) :
         state_file' = [exists |-> TRUE, form |-> form, content |-> job[p].state]
    /\ truncated' = FALSE
    /\ job' = [job EXCEPT ![p] =
                 [@ EXCEPT !.pc = IF job[p].path = "success" THEN "done"
                                  ELSE "open_json"]]
    /\ UNCHANGED <<now, files>>
    /\ OverlapFrame

NextOverlap ==
    \E p \in Jobs :
        \/ job_start(p)
        \/ job_crawl(p)
        \/ job_merge(p)
        \/ job_open_json(p)
        \/ job_close_json(p)
        \/ job_open_state(p)
        \/ job_close_state(p)

SpecOverlap == InitOverlap /\ [][NextOverlap]_vars

\* C38: when two file-mode runs both loaded the state and the stored records
\* before either began to write, then once both have ended the record file
\* holds every record of the final set of either run, and the state file is
\* the state one of the two wrote.
C38_NoLostUpdate ==
    (\A p \in Jobs : job[p].pc = "done" /\ job[p].early /\ job[p].exit_code = 0) =>
        /\ \A p \in Jobs :
               existing_urls(job[p].final_articles)
                   \subseteq existing_urls(files[output_json].data)
        /\ \E p \in Jobs : state_file = StateFileOf(job[p].state)

====
